---- MODULE Spec2Model ----
(***************************************************************************)
(* MultiIndexedTree (src/src/lib.rs, src/src/Tree.rs): a keyed tree of     *)
(* reference-counted nodes with a primary index (key -> node), a secondary *)
(* index (tag -> keys) and three traversal iterators.                      *)
(*                                                                         *)
(* `nodes` maps the identities of the nodes that are alive (strong count    *)
(* > 0) to their fields.  The k-th node created by Node::new has identity  *)
(* k; identities are never reused, so a Weak reference to a dropped node   *)
(* cannot be mistaken for a live one.  Rust's 0-based child positions are  *)
(* kept: children[i] of the code is children[i + 1] here.                  *)
(***************************************************************************)
EXTENDS Integers, Sequences, FiniteSets, TLC

\* ---- bounds of the model -------------------------------------------------
\* Node::new is called at most MaxNodes times, the root included.
MaxNodes == 4
\* add_to_secondary_index is called at most MaxTagged times.
MaxTagged == 2

NodeIds == 1..MaxNodes

\* Keys, values and tags are opaque to the tree (K: Eq + Hash, T, String);
\* the names are those of the tests.
Keys == {"root", "child1", "child2"}
Values == {"root_value", "child_value"}
Tags == {"tag1"}

\* The fixture of every test: MultiIndexedTree::new("root", "root_value").
RootKey == "root"
RootValue == "root_value"

\* Option::None for a node handle / parent reference.
None == 0

VARIABLES nodes, root, index, secondary_index, last, panicked, allocated,
          dfs, bfs, sp, tagged, dj

vars == <<nodes, root, index, secondary_index, last, panicked, allocated, dfs, bfs, sp,
          tagged, dj>>

\* ---- helpers for HashMap / Vec -------------------------------------------
\* A lookup that falls back to the first node created, the root, instead of
\* reporting absence.
MapGet_orRoot(m, k) == IF k \in DOMAIN m THEN m[k] ELSE 1

MapGet(m, k) == IF k \in DOMAIN m THEN m[k] ELSE None

MapRemove(m, k) == [x \in (DOMAIN m) \ {k} |-> m[x]]

MapInsert(m, k, v) == [x \in (DOMAIN m) \cup {k} |-> IF x = k THEN v ELSE m[x]]

Range(s) == {s[i] : i \in DOMAIN s}

Min(a, b) == IF a < b THEN a ELSE b

\* Vec::remove(i): the elements after the removed one move up, in order.
swap_remove_shift(v, i) == SubSeq(v, 1, i) \o SubSeq(v, i + 2, Len(v))

\* Vec::swap_remove(i), i 0-based and in range: the last element takes the
\* place of the removed one and the vector shrinks by one.
swap_remove(v, i) ==
  LET n == Len(v)
      w == [v EXCEPT ![i + 1] = v[n]]
  IN  SubSeq(w, 1, n - 1)

\* rev() of an iterator, Vec::reverse
Reverse(s) == [i \in 1..Len(s) |-> s[Len(s) + 1 - i]]

\* ---- Node ----------------------------------------------------------------
Node_new(key, value) ==
  [children |-> <<>>, index |-> 0, parent |-> None, value |-> value, key |-> key]

\* Node::parent(): upgrade of the Weak back-reference; it yields nothing when
\* the parent has been dropped.
parent(ns, n) ==
  IF ns[n].parent \in DOMAIN ns THEN ns[n].parent ELSE None

\* swap_remove panics when the cached index is out of range.
abandon_panics(ns, self, child) == ns[child].index >= Len(ns[self].children)

\* abandon without the repair of the moved child's cached index.
abandon_noFix(ns, self, child) ==
  LET idx == ns[child].index
      ns1 == [ns EXCEPT ![child].parent = None]
  IN  IF abandon_panics(ns, self, child) THEN ns1
      ELSE [ns1 EXCEPT ![self].children = swap_remove(@, idx)]

abandon(ns, self, child) ==
  LET idx == ns[child].index
      ns1 == [ns EXCEPT ![child].parent = None]
  IN  IF abandon_panics(ns, self, child) THEN ns1
      ELSE
        LET ns2 == [ns1 EXCEPT ![self].children = swap_remove(@, idx)]
            count == Len(ns2[self].children)
        IN  IF count # 0
            THEN LET i2 == Min(idx, count - 1)
                 IN  [ns2 EXCEPT ![ns2[self].children[i2 + 1]].index = i2]
            ELSE ns2

RECURSIVE remove_descendants(_, _, _)
RECURSIVE remove_each(_, _, _)
\* the loop `for child in node.children` of remove_descendants
remove_each(ns, kids, idx) ==
  IF kids = <<>> THEN idx
  ELSE remove_each(ns, Tail(kids), remove_descendants(ns, Head(kids), idx))

\* remove_descendants without the recursion into the children.
remove_descendants_shallow(ns, node, idx) == MapRemove(idx, ns[node].key)

remove_descendants(ns, node, idx) ==
  MapRemove(remove_each(ns, ns[node].children, idx), ns[node].key)

detach_panics(ns, self) ==
  /\ parent(ns, self) # None
  /\ abandon_panics(ns, parent(ns, self), self)

\* Node::detach: the node structure and the index after the call.
detach(ns, idx, self) ==
  LET p == parent(ns, self)
      ns1 == IF p # None THEN abandon(ns, p, self) ELSE ns
  IN  IF detach_panics(ns, self)
      THEN [nodes |-> ns1, index |-> idx]
      ELSE [nodes |-> ns1, index |-> remove_descendants(ns1, self, idx)]

\* attach that puts the node in front of its new siblings.
attach_front(ns, idx, self, newParent) ==
  LET d == detach(ns, idx, self)
      ns1 == d.nodes
      ns2 == [ns1 EXCEPT ![self].index = Len(ns1[newParent].children),
                         ![self].parent = newParent]
      ns3 == [ns2 EXCEPT ![newParent].children = <<self>> \o @]
  IN  IF detach_panics(ns, self) THEN d
      ELSE [nodes |-> ns3, index |-> d.index]

\* Node::attach (the body of Node::adopt with the roles swapped).
attach(ns, idx, self, newParent) ==
  LET d == detach(ns, idx, self)
      ns1 == d.nodes
      ns2 == [ns1 EXCEPT ![self].index = Len(ns1[newParent].children),
                         ![self].parent = newParent]
      ns3 == [ns2 EXCEPT ![newParent].children = Append(@, self)]
  IN  IF detach_panics(ns, self) THEN d
      ELSE [nodes |-> ns3, index |-> d.index]

\* adopt with the two nodes confused: the parent is attached under the child.
adopt_swapped(ns, idx, self, child) == attach(ns, idx, self, child)

adopt(ns, idx, self, child) == attach(ns, idx, child, self)

\* ---- ownership (Rc) ------------------------------------------------------
RECURSIVE Subtree(_, _)
\* the node n and everything below it through children lists
Subtree(ns, n) ==
  {n} \cup UNION {Subtree(ns, c) : c \in Range(ns[n].children)}

\* Nodes with a strong owner: the tree's root field, an index entry, or a
\* children list of a node that is itself owned.
Live(ns, rt, idx) ==
  Subtree(ns, rt) \cup UNION {Subtree(ns, idx[k]) : k \in DOMAIN idx}

\* Dropping the last Rc of a node frees it.
Drop(ns, rt, idx) == [n \in Live(ns, rt, idx) |-> ns[n]]

\* ---- MultiIndexedTree ----------------------------------------------------
find(idx, key) == MapGet(idx, key)

\* What the last call of insert, remove or dijkstra_shortest_paths returned
\* ("Some" / "None" for the latter, "panic" for a call that aborted).  purged,
\* at and sibs describe the node a successful remove found, as it was before the call: the size of its
\* subtree, its position in its parent's children (-1 without a parent) and
\* the number of children of that parent.
Returned(op, res, purged, at, sibs) ==
  [op |-> op, res |-> res, purged |-> purged, at |-> at, sibs |-> sibs]

\* dijkstra_shortest_paths has not been called: dj holds the arguments of its
\* last call and the path map it returned.
NoPaths == [start |-> "", end |-> "", paths |-> <<>>]

\* An iterator that has not been created, or has been dropped.
NoStack == [alive |-> FALSE, stack |-> <<>>, out |-> <<>>, ended |-> FALSE]

NoQueue == [alive |-> FALSE, queue |-> <<>>, out |-> <<>>, ended |-> FALSE]

\* No iterator of this tree is alive.
NoIterator == ~dfs.alive /\ ~bfs.alive /\ ~sp.alive

Init ==
  LET rk == RootKey
      rv == RootValue
  IN
    /\ nodes = [n \in {1} |-> Node_new(rk, rv)]
    /\ root = 1
    /\ index = [k \in {rk} |-> 1]
    /\ secondary_index = <<>>
    /\ last = Returned("new", "Ok", 0, -1, 0)
    /\ panicked = FALSE
    /\ allocated = 1
    /\ dfs = NoStack
    /\ bfs = NoQueue
    /\ sp = NoQueue
    /\ tagged = <<>>
    /\ dj = NoPaths

\* An insert that refuses a key the primary index already holds.
insert_unique(parent_key, key, value) ==
  /\ ~panicked
  /\ NoIterator
  /\ LET parent_node == MapGet(index, parent_key)
     IN  IF key \in DOMAIN index
         THEN /\ last' = Returned("insert", "Key already exists", 0, -1, 0)
              /\ UNCHANGED <<nodes, index, panicked, allocated>>
         ELSE IF parent_node # None
         THEN /\ allocated < MaxNodes
              /\ allocated' = allocated + 1
              /\ LET new_node == allocated + 1
                     ns1 == [n \in (DOMAIN nodes) \cup {new_node} |->
                               IF n = new_node THEN Node_new(key, value) ELSE nodes[n]]
                     a == adopt(ns1, index, parent_node, new_node)
                     idx2 == MapInsert(a.index, key, new_node)
                 IN  IF detach_panics(ns1, new_node)
                     THEN /\ nodes' = a.nodes
                          /\ index' = a.index
                          /\ panicked' = TRUE
                          /\ last' = Returned("insert", "panic", 0, -1, 0)
                     ELSE /\ nodes' = Drop(a.nodes, root, idx2)
                          /\ index' = idx2
                          /\ panicked' = FALSE
                          /\ last' = Returned("insert", "Ok", 0, -1, 0)
         ELSE /\ last' = Returned("insert", "Parent key not found", 0, -1, 0)
              /\ UNCHANGED <<nodes, index, panicked, allocated>>
  /\ UNCHANGED <<root, secondary_index, tagged, dfs, bfs, sp, dj>>

insert(parent_key, key, value) ==
  /\ ~panicked
  /\ NoIterator
  /\ LET parent_node == MapGet(index, parent_key)
     IN  IF parent_node # None
         THEN /\ allocated < MaxNodes
              /\ allocated' = allocated + 1
              /\ LET new_node == allocated + 1
                     ns1 == [n \in (DOMAIN nodes) \cup {new_node} |->
                               IF n = new_node THEN Node_new(key, value) ELSE nodes[n]]
                     a == adopt(ns1, index, parent_node, new_node)
                     idx2 == MapInsert(a.index, key, new_node)
                 IN  IF detach_panics(ns1, new_node)
                     THEN /\ nodes' = a.nodes
                          /\ index' = a.index
                          /\ panicked' = TRUE
                          /\ last' = Returned("insert", "panic", 0, -1, 0)
                     ELSE /\ nodes' = Drop(a.nodes, root, idx2)
                          /\ index' = idx2
                          /\ panicked' = FALSE
                          /\ last' = Returned("insert", "Ok", 0, -1, 0)
         ELSE /\ last' = Returned("insert", "Parent key not found", 0, -1, 0)
              /\ UNCHANGED <<nodes, index, panicked, allocated>>
  /\ UNCHANGED <<root, secondary_index, tagged, dfs, bfs, sp, dj>>

remove(key) ==
  /\ ~panicked
  /\ NoIterator
  /\ LET node == MapGet(index, key)
     IN  IF node # None
         THEN LET d == detach(nodes, index, node)
                  p == parent(nodes, node)
                  purged == Cardinality(Subtree(nodes, node))
                  at == IF p = None THEN -1 ELSE nodes[node].index
                  sibs == IF p = None THEN 0 ELSE Len(nodes[p].children)
              IN  IF detach_panics(nodes, node)
                  THEN /\ nodes' = d.nodes
                       /\ index' = d.index
                       /\ panicked' = TRUE
                       /\ last' = Returned("remove", "panic", purged, at, sibs)
                  ELSE /\ nodes' = Drop(d.nodes, root, d.index)
                       /\ index' = d.index
                       /\ panicked' = FALSE
                       /\ last' = Returned("remove", "Ok", purged, at, sibs)
         ELSE /\ last' = Returned("remove", "Key not found", 0, -1, 0)
              /\ UNCHANGED <<nodes, index, panicked>>
  /\ UNCHANGED <<root, secondary_index, tagged, allocated, dfs, bfs, sp, dj>>

\* Number of keys registered under all tags together.
Registered(si) ==
  LET RECURSIVE Sum(_)
      Sum(ts) == IF ts = {} THEN 0
                 ELSE LET t == CHOOSE x \in ts : TRUE
                      IN  Len(si[t]) + Sum(ts \ {t})
  IN  Sum(DOMAIN si)

\* tagged is the history of the calls: the <<tag, key>> pairs in call order.
add_to_secondary_index(tag, key) ==
  /\ ~panicked
  /\ NoIterator
  /\ Registered(secondary_index) < MaxTagged
  /\ secondary_index' =
       MapInsert(secondary_index, tag,
                 Append(IF tag \in DOMAIN secondary_index
                        THEN secondary_index[tag] ELSE <<>>, key))
  /\ tagged' = Append(tagged, <<tag, key>>)
  /\ UNCHANGED <<nodes, root, index, last, panicked, allocated, dfs, bfs, sp, dj>>

\* filter_map that gives up at the first key that is not found
filter_map_find_untilMissing(idx, keys) ==
  LET RECURSIVE Take(_)
      Take(ks) == IF ks = <<>> \/ find(idx, Head(ks)) = None THEN <<>>
                  ELSE <<find(idx, Head(ks))>> \o Take(Tail(ks))
  IN  Take(keys)

RECURSIVE filter_map_find(_, _)
\* `keys.iter().filter_map(|k| self.find(k)).collect()`
filter_map_find(idx, keys) ==
  IF keys = <<>> THEN <<>>
  ELSE LET n == find(idx, Head(keys))
       IN  (IF n # None THEN <<n>> ELSE <<>>) \o filter_map_find(idx, Tail(keys))

\* Option<Vec<Rc<Node>>>: some tells Some from None.
find_by_secondary_index(si, idx, tag) ==
  IF tag \in DOMAIN si
  THEN [some |-> TRUE, nodes |-> filter_map_find(idx, si[tag])]
  ELSE [some |-> FALSE, nodes |-> <<>>]

\* ---- distance query (src/src/Tree.rs) --------------------------------------
\* usize::MAX, the distance of a key not reached yet.  Distances are at most
\* the number of nodes, so any larger number stands for it.
usize_MAX == 1000000

RECURSIVE dijkstra_relax(_, _, _, _, _)
\* `for child in node.children.borrow().iter() { ... }` for the key taken from
\* the queue; st holds distances, predecessors, queue and whether an unwrap
\* of a missing distance has aborted the call.
dijkstra_relax(st, ns, current_key, current_distance, kids) ==
  IF st.panic \/ kids = <<>> THEN st
  ELSE
    LET child_key == ns[Head(kids)].key
        new_distance == current_distance + 1
    IN  IF child_key \notin DOMAIN st.distances
        THEN [st EXCEPT !.panic = TRUE]
        ELSE IF new_distance < st.distances[child_key]
        THEN dijkstra_relax(
               [st EXCEPT !.distances = MapInsert(@, child_key, new_distance),
                          !.predecessors = MapInsert(@, child_key, <<current_key>>),
                          !.queue = Append(@, child_key)],
               ns, current_key, current_distance, Tail(kids))
        ELSE IF new_distance = st.distances[child_key]
        THEN dijkstra_relax(
               [st EXCEPT !.predecessors =
                  MapInsert(@, child_key,
                            Append(IF child_key \in DOMAIN @ THEN @[child_key] ELSE <<>>,
                                   current_key))],
               ns, current_key, current_distance, Tail(kids))
        ELSE dijkstra_relax(st, ns, current_key, current_distance, Tail(kids))

RECURSIVE dijkstra_bfs(_, _, _)
\* `while let Some(current_key) = queue.pop_front() { ... }`
dijkstra_bfs(st, ns, idx) ==
  IF st.panic \/ st.queue = <<>> THEN st
  ELSE
    LET current_key == Head(st.queue)
        st1 == [st EXCEPT !.queue = Tail(@)]
    IN  IF current_key \notin DOMAIN st.distances
        THEN [st1 EXCEPT !.panic = TRUE]
        ELSE IF current_key \in DOMAIN idx
        THEN dijkstra_bfs(
               dijkstra_relax(st1, ns, current_key, st.distances[current_key],
                              ns[idx[current_key]].children),
               ns, idx)
        ELSE dijkstra_bfs(st1, ns, idx)

RECURSIVE trace_paths(_, _, _, _)
\* the all_paths map after the call; current_path is as before the call
\* again when it returns (push at entry, pop at exit)
trace_paths(end_key, predecessors, current_path, all_paths) ==
  LET path == Append(current_path, end_key)
      RECURSIVE each(_, _)
      each(preds, acc) ==
        IF preds = <<>> THEN acc
        ELSE each(Tail(preds), trace_paths(Head(preds), predecessors, path, acc))
  IN  IF end_key \in DOMAIN predecessors
      THEN each(predecessors[end_key], all_paths)
      ELSE MapInsert(all_paths, Len(path), Reverse(path))

\* The outcome of dijkstra_shortest_paths(start_key, end_key): res is "Some",
\* "None" or "panic" and paths is the map returned with Some.
dijkstra_outcome(ns, idx, start_key, end_key) ==
  LET st0 == [distances |-> MapInsert([k \in DOMAIN idx |-> usize_MAX], start_key, 0),
              predecessors |-> <<>>,
              queue |-> <<start_key>>,
              panic |-> FALSE]
      st == dijkstra_bfs(st0, ns, idx)
  IN  IF st.panic \/ end_key \notin DOMAIN st.distances
      THEN [res |-> "panic", paths |-> <<>>]
      ELSE IF st.distances[end_key] = usize_MAX
      THEN [res |-> "None", paths |-> <<>>]
      ELSE [res |-> "Some", paths |-> trace_paths(end_key, st.predecessors, <<>>, <<>>)]

dijkstra_shortest_paths(start_key, end_key) ==
  /\ ~panicked
  /\ NoIterator
  /\ LET r == dijkstra_outcome(nodes, index, start_key, end_key)
     IN  /\ dj' = [start |-> start_key, end |-> end_key, paths |-> r.paths]
         /\ last' = Returned("dijkstra_shortest_paths", r.res, 0, -1, 0)
         /\ panicked' = (r.res = "panic")
  /\ UNCHANGED <<nodes, root, index, secondary_index, tagged, allocated, dfs, bfs, sp>>

\* ---- traversal iterators --------------------------------------------------
\* An iterator is alive from its creation to its drop.  stack/queue is the
\* field of the struct; out lists the nodes next() has yielded so far and ended tells that
\* a call of next() has returned nothing.  The tree is not mutated while an
\* iterator of it is alive (insert and remove require NoIterator).

\* the children pushed in stored order, without rev()
dfs_push_forward(stack, children) == stack \o children

\* `for child in node.children.iter().rev() { stack.push(child) }`
dfs_push(stack, children) == stack \o Reverse(children)

\* the children enqueued in reverse order
bfs_push_reversed(queue, children) == queue \o Reverse(children)

\* `for child in node.children.iter() { queue.push_back(child) }`
bfs_push(queue, children) == queue \o children

\* the children put in front of the queue, deepest first
sp_push_front(queue, depth, children) ==
  [i \in 1..Len(children) |-> <<depth + 1, children[i]>>] \o queue

\* `for child in ... { queue.push_back((depth + 1, child)) }`
sp_push(queue, depth, children) ==
  queue \o [i \in 1..Len(children) |-> <<depth + 1, children[i]>>]

iter_depth_first ==
  /\ ~panicked
  /\ ~dfs.alive
  /\ dfs' = [alive |-> TRUE, stack |-> <<root>>, out |-> <<>>, ended |-> FALSE]
  /\ UNCHANGED <<nodes, root, index, secondary_index, tagged, last, panicked, allocated, bfs, sp, dj>>

\* next() that reads the top of the stack and leaves it there.
DepthFirstIterator_next_noPop ==
  /\ dfs.alive
  /\ IF dfs.stack # <<>>
     THEN LET n == Len(dfs.stack)
              node == dfs.stack[n]
          IN  dfs' = [alive |-> TRUE,
                      stack |-> dfs_push(dfs.stack, nodes[node].children),
                      out |-> Append(dfs.out, node),
                      ended |-> FALSE]
     ELSE dfs' = [dfs EXCEPT !.ended = TRUE]
  /\ UNCHANGED <<nodes, root, index, secondary_index, tagged, last, panicked, allocated, bfs, sp, dj>>

DepthFirstIterator_next ==
  /\ dfs.alive
  /\ IF dfs.stack # <<>>
     THEN LET n == Len(dfs.stack)
              node == dfs.stack[n]
          IN  dfs' = [alive |-> TRUE,
                      stack |-> dfs_push(SubSeq(dfs.stack, 1, n - 1), nodes[node].children),
                      out |-> Append(dfs.out, node),
                      ended |-> FALSE]
     ELSE dfs' = [dfs EXCEPT !.ended = TRUE]
  /\ UNCHANGED <<nodes, root, index, secondary_index, tagged, last, panicked, allocated, bfs, sp, dj>>

DepthFirstIterator_drop ==
  /\ dfs.alive
  /\ dfs' = NoStack
  /\ UNCHANGED <<nodes, root, index, secondary_index, tagged, last, panicked, allocated, bfs, sp, dj>>

iter_breadth_first ==
  /\ ~panicked
  /\ ~bfs.alive
  /\ bfs' = [alive |-> TRUE, queue |-> <<root>>, out |-> <<>>, ended |-> FALSE]
  /\ UNCHANGED <<nodes, root, index, secondary_index, tagged, last, panicked, allocated, dfs, sp, dj>>

BreadthFirstIterator_next ==
  /\ bfs.alive
  /\ IF bfs.queue # <<>>
     THEN LET node == Head(bfs.queue)
          IN  bfs' = [alive |-> TRUE,
                      queue |-> bfs_push(Tail(bfs.queue), nodes[node].children),
                      out |-> Append(bfs.out, node),
                      ended |-> FALSE]
     ELSE bfs' = [bfs EXCEPT !.ended = TRUE]
  /\ UNCHANGED <<nodes, root, index, secondary_index, tagged, last, panicked, allocated, dfs, sp, dj>>

BreadthFirstIterator_drop ==
  /\ bfs.alive
  /\ bfs' = NoQueue
  /\ UNCHANGED <<nodes, root, index, secondary_index, tagged, last, panicked, allocated, dfs, sp, dj>>

iter_shortest_path ==
  /\ ~panicked
  /\ ~sp.alive
  /\ sp' = [alive |-> TRUE, queue |-> << <<0, root>> >>, out |-> <<>>, ended |-> FALSE]
  /\ UNCHANGED <<nodes, root, index, secondary_index, tagged, last, panicked, allocated, dfs, bfs, dj>>

ShortestPathIterator_next ==
  /\ sp.alive
  /\ IF sp.queue # <<>>
     THEN LET depth == Head(sp.queue)[1]
              node == Head(sp.queue)[2]
          IN  sp' = [alive |-> TRUE,
                     queue |-> sp_push(Tail(sp.queue), depth, nodes[node].children),
                     out |-> Append(sp.out, node),
                     ended |-> FALSE]
     ELSE sp' = [sp EXCEPT !.ended = TRUE]
  /\ UNCHANGED <<nodes, root, index, secondary_index, tagged, last, panicked, allocated, dfs, bfs, dj>>

ShortestPathIterator_drop ==
  /\ sp.alive
  /\ sp' = NoQueue
  /\ UNCHANGED <<nodes, root, index, secondary_index, tagged, last, panicked, allocated, dfs, bfs, dj>>

\* ---- specifications -------------------------------------------------------
Insert == \E pk \in Keys, k \in Keys, v \in Values : insert(pk, k, v)

\* No operation reads the value of a node: where the values do not matter the
\* trees are built with one value.
InsertKeys == \E pk \in Keys, k \in Keys : insert(pk, k, RootValue)

Remove == \E k \in Keys : remove(k)

AddToSecondaryIndex == \E t \in Tags, k \in Keys : add_to_secondary_index(t, k)

Dijkstra == \E s \in Keys, e \in Keys : dijkstra_shortest_paths(s, e)

\* insert and remove only
Next == Insert \/ Remove

Spec == Init /\ [][Next]_vars

\* insert, remove and the secondary index
NextTags == InsertKeys \/ Remove \/ AddToSecondaryIndex

SpecTags == Init /\ [][NextTags]_vars

\* insert, remove and the distance query
NextDijkstra == InsertKeys \/ Remove \/ Dijkstra

SpecDijkstra == Init /\ [][NextDijkstra]_vars

\* insert, remove and depth-first traversal
NextDfs ==
  \/ InsertKeys
  \/ Remove
  \/ iter_depth_first
  \/ DepthFirstIterator_next
  \/ DepthFirstIterator_drop

SpecDfs == Init /\ [][NextDfs]_vars

\* insert, remove, breadth-first and shortest-path traversal
NextBfs ==
  \/ InsertKeys
  \/ Remove
  \/ iter_breadth_first
  \/ BreadthFirstIterator_next
  \/ BreadthFirstIterator_drop
  \/ iter_shortest_path
  \/ ShortestPathIterator_next
  \/ ShortestPathIterator_drop

SpecBfs == Init /\ [][NextBfs]_vars

\* insert, remove and the three traversals, one at a time, each run by a
\* caller that keeps calling next() (a `for` loop over the iterator) until it
\* returns nothing or the iterator is dropped
NextIterate ==
  \/ InsertKeys
  \/ Remove
  \/ (NoIterator /\ iter_depth_first)
  \/ DepthFirstIterator_next
  \/ DepthFirstIterator_drop
  \/ (NoIterator /\ iter_breadth_first)
  \/ BreadthFirstIterator_next
  \/ BreadthFirstIterator_drop
  \/ (NoIterator /\ iter_shortest_path)
  \/ ShortestPathIterator_next
  \/ ShortestPathIterator_drop

SpecIterate ==
  /\ Init
  /\ [][NextIterate]_vars
  /\ WF_vars(DepthFirstIterator_next)
  /\ WF_vars(BreadthFirstIterator_next)
  /\ WF_vars(ShortestPathIterator_next)

\* ---- properties -------------------------------------------------------------
\* Nodes reachable from the root through children lists.
Reachable == Subtree(nodes, root)

\* C1: between calls, the key set of the primary index equals the set of keys
\* of the nodes reachable from the root, and each indexed key maps to the
\* reachable node carrying that key.
C1_IndexMatchesReachable ==
  /\ DOMAIN index = {nodes[n].key : n \in Reachable}
  /\ \A k \in DOMAIN index : index[k] \in Reachable /\ nodes[index[k]].key = k

\* C2: for every node n that has a parent p, the cached position of n is a
\* valid position in p's children and p.children[n.index] is n.
C2_IndexBookkeeping ==
  \A n \in DOMAIN nodes :
    parent(nodes, n) # None =>
      LET p == parent(nodes, n)
      IN  /\ nodes[n].index >= 0
          /\ nodes[n].index < Len(nodes[p].children)
          /\ nodes[p].children[nodes[n].index + 1] = n

\* A remove has just taken a child out of the middle of its parent's
\* children, so the former last child was moved into its place.
C2_Witness ==
  /\ last.op = "remove"
  /\ last.res = "Ok"
  /\ last.at >= 0
  /\ last.at + 1 < last.sibs
  /\ \E n \in DOMAIN nodes : parent(nodes, n) # None /\ nodes[n].index = last.at

\* C3: find(rootKey) succeeds after any sequence of insert and remove calls.
C3_RootKeyAlwaysFound == find(index, nodes[root].key) # None

\* C4: when remove(k) returns Ok, find(k) and find(d), for the key d of every
\* descendant of the node found for k, return nothing immediately afterwards.
C4_RemovePurgesSubtree ==
  [][\A k \in Keys :
       (last'.res = "Ok" /\ remove(k)) =>
         /\ find(index', k) = None
         /\ \A n \in Subtree(nodes, find(index, k)) :
              find(index', nodes[n].key) = None]_vars

\* A remove has just returned Ok for a node that had descendants.
C4_Witness ==
  /\ last.op = "remove"
  /\ last.res = "Ok"
  /\ last.purged >= 2

\* C5: when insert(p, k, v) returns Ok, find(k) returns a node with value v,
\* whose parent is the node find(p) returned before the call (with key p),
\* which has no children and is the last of that parent's children.
C5_InsertThenFind ==
  [][\A pk \in Keys, k \in Keys, v \in Values :
       (last'.res = "Ok" /\ insert(pk, k, v)) =>
         LET n == find(index', k)
             p == find(index, pk)
         IN  /\ n # None
             /\ p # None
             /\ nodes'[n].value = v
             /\ parent(nodes', n) = p
             /\ nodes'[p].key = pk
             /\ nodes'[n].children = <<>>
             /\ nodes'[p].children # <<>>
             /\ nodes'[p].children[Len(nodes'[p].children)] = n]_vars

\* An insert has just returned Ok and its node, the newest one, was appended
\* after an existing sibling.
C5_Witness ==
  /\ last.op = "insert"
  /\ last.res = "Ok"
  /\ allocated \in DOMAIN nodes
  /\ nodes[allocated].index >= 1
  /\ find(index, nodes[allocated].key) = allocated

\* C6: insert(p, k, v) with p absent from the primary index returns the
\* parent-not-found error and leaves the nodes, the primary index and the
\* secondary index as they were; with p present it returns Ok (no step that
\* is an insert under a present p returns anything else).
C6_InsertParentNotFound ==
  [][last'.op = "insert" =>
       \A pk \in Keys :
         IF pk \notin DOMAIN index
         THEN (\E k \in Keys, v \in Values : insert(pk, k, v)) =>
                /\ last'.res = "Parent key not found"
                /\ nodes' = nodes
                /\ root' = root
                /\ index' = index
                /\ secondary_index' = secondary_index
         ELSE last'.res = "Ok" \/ ~\E k \in Keys, v \in Values : insert(pk, k, v)]_vars

\* An insert has just failed on a tree with several nodes and a non-empty
\* secondary index.
C6_Witness ==
  /\ last.op = "insert"
  /\ last.res = "Parent key not found"
  /\ Cardinality(DOMAIN nodes) >= 2
  /\ DOMAIN secondary_index # {}

\* C7: remove(k) with k absent from the primary index returns the
\* key-not-found error and leaves the nodes, the primary index and the
\* secondary index as they were; with k present it returns Ok (no step that
\* is a remove of a present k returns anything else).
C7_RemoveKeyNotFound ==
  [][last'.op = "remove" =>
       \A k \in Keys :
         IF k \notin DOMAIN index
         THEN remove(k) =>
                /\ last'.res = "Key not found"
                /\ nodes' = nodes
                /\ root' = root
                /\ index' = index
                /\ secondary_index' = secondary_index
         ELSE last'.res = "Ok" \/ ~remove(k)]_vars

\* A remove has just failed on a tree with several nodes and a non-empty
\* secondary index.
C7_Witness ==
  /\ last.op = "remove"
  /\ last.res = "Key not found"
  /\ Cardinality(DOMAIN nodes) >= 2
  /\ DOMAIN secondary_index # {}

\* s is an initial segment of t.
IsPrefix(s, t) == Len(s) <= Len(t) /\ s = SubSeq(t, 1, Len(s))

RECURSIVE Flatten(_)
\* concatenation of a sequence of sequences
Flatten(ss) == IF ss = <<>> THEN <<>> ELSE Head(ss) \o Flatten(Tail(ss))

RECURSIVE PreOrder(_, _)
\* n, then the pre-order listing of each child's subtree, child by child in
\* stored order
PreOrder(ns, n) ==
  <<n>> \o Flatten([i \in 1..Len(ns[n].children) |-> PreOrder(ns, ns[n].children[i])])

RECURSIVE LevelsFrom(_, _)
\* the nodes of one depth, in order, followed by those of the deeper levels:
\* the next level lists the children of each node of this one, node by node
LevelsFrom(ns, level) ==
  IF level = <<>> THEN <<>>
  ELSE level \o LevelsFrom(ns, Flatten([i \in 1..Len(level) |-> ns[level[i]].children]))

LevelOrder(ns, n) == LevelsFrom(ns, <<n>>)

\* C8: iter_depth_first yields exactly the pre-order listing of the structure
\* under the root.
C8_DepthFirstIsPreOrder ==
  dfs.alive =>
    /\ IsPrefix(dfs.out, PreOrder(nodes, root))
    /\ dfs.stack = <<>> => dfs.out = PreOrder(nodes, root)

\* A depth-first traversal has run to its end on a tree whose pre-order and
\* level-order listings differ.
C8_Witness ==
  /\ dfs.alive
  /\ dfs.stack = <<>>
  /\ Len(dfs.out) >= 4
  /\ PreOrder(nodes, root) # LevelOrder(nodes, root)

\* C9: iter_breadth_first yields exactly the level-order listing of the
\* structure under the root.
C9_BreadthFirstIsLevelOrder ==
  bfs.alive =>
    /\ IsPrefix(bfs.out, LevelOrder(nodes, root))
    /\ bfs.queue = <<>> => bfs.out = LevelOrder(nodes, root)

\* A breadth-first traversal has run to its end on a tree whose pre-order and
\* level-order listings differ.
C9_Witness ==
  /\ bfs.alive
  /\ bfs.queue = <<>>
  /\ Len(bfs.out) >= 4
  /\ PreOrder(nodes, root) # LevelOrder(nodes, root)

\* C10: iter_shortest_path yields the same nodes, item by item, as
\* iter_breadth_first created on the same tree state: after equally many
\* calls of next() both hold the same nodes in their queues.
C10_ShortestPathIsBreadthFirst ==
  (bfs.alive /\ sp.alive) =>
    /\ \A i \in 1..Min(Len(bfs.out), Len(sp.out)) : sp.out[i] = bfs.out[i]
    /\ Len(sp.out) = Len(bfs.out) =>
         [i \in 1..Len(sp.queue) |-> sp.queue[i][2]] = bfs.queue

\* Both traversals have run to their end on a tree whose level-order and
\* pre-order listings differ, the shortest-path iterator having queued nodes
\* of depth two.
C10_Witness ==
  /\ bfs.alive
  /\ sp.alive
  /\ bfs.queue = <<>>
  /\ sp.queue = <<>>
  /\ Len(sp.out) >= 4
  /\ sp.out # PreOrder(nodes, root)

\* The keys add_to_secondary_index was called with for tag, in call order.
RegisteredUnder(tag) ==
  LET calls == SelectSeq(tagged, LAMBDA c : c[1] = tag)
  IN  [i \in 1..Len(calls) |-> calls[i][2]]

\* C11: find_by_secondary_index(tag) returns nothing for a tag that was never
\* registered; otherwise the keys registered under the tag, in registration
\* order with repetitions, without those absent from the primary index, each
\* replaced by the node find returns for it.
C11_FindBySecondaryIndex ==
  \A tag \in Tags :
    LET regs == RegisteredUnder(tag)
        present == SelectSeq(regs, LAMBDA k : k \in DOMAIN index)
        result == find_by_secondary_index(secondary_index, index, tag)
    IN  IF regs = <<>>
        THEN ~result.some
        ELSE /\ result.some
             /\ result.nodes = [i \in 1..Len(present) |-> find(index, present[i])]

\* Two keys are registered under a tag; the first has been removed from the
\* tree since, the second is still found.
C11_Witness ==
  \E tag \in Tags :
    LET regs == RegisteredUnder(tag)
    IN  /\ Len(regs) = 2
        /\ regs[1] \notin DOMAIN index
        /\ regs[2] \in DOMAIN index
        /\ last.op = "remove"
        /\ last.res = "Ok"
        /\ Len(find_by_secondary_index(secondary_index, index, tag).nodes) = 1

\* ---- dijkstra_shortest_paths ----------------------------------------------
\* The last call was dijkstra_shortest_paths (its arguments are in dj).
Queried == last.op = "dijkstra_shortest_paths"

\* Key e is key s itself, or the key of a node below the node found for s.
ReachableByKey(s, e) ==
  \/ e = s
  \/ /\ s \in DOMAIN index
     /\ \E m \in Subtree(nodes, index[s]) : nodes[m].key = e

\* C12: whatever the two keys are, present or not, the query answers "no path"
\* when the end key cannot be reached from the start key by parent-to-child
\* edges and answers with a path map when it can.
C12_NoPathIffUnreachable ==
  Queried =>
    IF ReachableByKey(dj.start, dj.end) THEN last.res = "Some" ELSE last.res = "None"

RECURSIVE KeysUpTo(_, _)
\* the keys on the chain from node top down to node n, n at or below top
KeysUpTo(top, n) ==
  IF n = top THEN <<nodes[n].key>>
  ELSE Append(KeysUpTo(top, nodes[n].parent), nodes[n].key)

DistinctKeys == \A a, b \in Reachable : nodes[a].key = nodes[b].key => a = b

\* C13: when the reachable keys are distinct, the start key is present and the
\* end key is the start key or the key of a descendant, the query returns a map
\* with one entry only: the keys from start down to end, under their number.
C13_SinglePathUnderItsLength ==
  (Queried /\ DistinctKeys /\ dj.start \in DOMAIN index) =>
    \A m \in Subtree(nodes, index[dj.start]) :
      nodes[m].key = dj.end =>
        LET chain == KeysUpTo(index[dj.start], m)
        IN  /\ last.res = "Some"
            /\ DOMAIN dj.paths = {Len(chain)}
            /\ dj.paths[Len(chain)] = chain

\* C14: after any inserts and removes, the query with both keys present in the
\* primary index never aborts.
C14_NeverAbortsOnPresentKeys ==
  (Queried /\ dj.start \in DOMAIN index /\ dj.end \in DOMAIN index) =>
    last.res # "panic"

\* ---- shape of the tree ----------------------------------------------------
\* C15: after any inserts and removes, no two distinct nodes reachable from the
\* root carry the same key.
C15_ReachableKeysUnique ==
  \A a \in Reachable : \A b \in Reachable \ {a} : nodes[a].key # nodes[b].key

\* the places <<p, i>> where node n sits in a children sequence
HoldersIn(ns, n) ==
  UNION {{<<p, i>> : i \in {j \in 1..Len(ns[p].children) : ns[p].children[j] = n}} :
           p \in DOMAIN ns}

Holders(n) == HoldersIn(nodes, n)

\* C16: the structure under the root is a tree: the root has no parent, every
\* other reachable node sits in one children sequence only, once, and its
\* parent back-reference is the node that holds it.
C16_IsTree ==
  /\ nodes[root].parent = None
  /\ Holders(root) = {}
  /\ \A n \in Reachable \ {root} :
       /\ Cardinality(Holders(n)) = 1
       /\ \A h \in Holders(n) : parent(nodes, n) = h[1]

\* a remove has detached the first of several siblings and three nodes, on two
\* levels or more, are left
C16_Witness ==
  /\ last.op = "remove" /\ last.res = "Ok"
  /\ last.at = 0 /\ last.sibs >= 2
  /\ Cardinality(Reachable) >= 3
  /\ \E n \in Reachable : Holders(n) # {} /\ nodes[n].children # <<>>

\* ---- insert of a key that is already present ------------------------------
\* how many of the listed nodes carry key k
KeyCount(ns, order, k) == Len(SelectSeq(order, LAMBDA n : ns[n].key = k))

\* insert(_, k, v) returned Ok, find(k) now gives the node just created, which
\* holds v, and the node found for k before sits where it sat.
InsertedOverOld(k, v) ==
  LET old == index[k]
      new == allocated'
  IN  /\ last'.res = "Ok"
      /\ new \notin DOMAIN nodes
      /\ find(index', k) = new
      /\ nodes'[new].key = k /\ nodes'[new].value = v
      /\ old \in DOMAIN nodes'
      /\ nodes'[old].parent = nodes[old].parent
      /\ HoldersIn(nodes', old) = HoldersIn(nodes, old)
      /\ old \in Subtree(nodes', root')

\* C17 as stated: insert(p, k, v) with p and k present returns Ok, makes find(k)
\* give the new node with value v and leaves the old node for k in place, and
\* both traversals then yield k twice.
C17_DuplicateInsertYieldsKeyTwice ==
  [][last'.op = "insert" =>
       \A p \in DOMAIN index, k \in DOMAIN index : \A v \in Values :
         insert(p, k, v) =>
           /\ InsertedOverOld(k, v)
           /\ KeyCount(nodes', PreOrder(nodes', root'), k) = 2
           /\ KeyCount(nodes', LevelOrder(nodes', root'), k) = 2]_vars

\* C17, amended: as above, and both traversals then yield k once more than
\* they did before the call, so at least twice.
C17_DuplicateInsertYieldsKeyOnceMore ==
  [][last'.op = "insert" =>
       \A p \in DOMAIN index, k \in DOMAIN index : \A v \in Values :
         insert(p, k, v) =>
           /\ InsertedOverOld(k, v)
           /\ KeyCount(nodes', PreOrder(nodes', root'), k)
                = KeyCount(nodes, PreOrder(nodes, root), k) + 1
           /\ KeyCount(nodes', LevelOrder(nodes', root'), k)
                = KeyCount(nodes, LevelOrder(nodes, root), k) + 1
           /\ KeyCount(nodes', PreOrder(nodes', root'), k) >= 2
           /\ KeyCount(nodes', LevelOrder(nodes', root'), k) >= 2]_vars

\* the last call inserted a key a second time, with another value: the index
\* has the new node, the old one is still reachable
C17_Witness ==
  /\ last.op = "insert" /\ last.res = "Ok"
  /\ \E old \in Reachable \ {root, allocated} :
       /\ nodes[old].key = nodes[allocated].key
       /\ nodes[old].value # nodes[allocated].value
       /\ find(index, nodes[old].key) = allocated
       /\ KeyCount(nodes, PreOrder(nodes, root), nodes[old].key) = 2

\* ---- remove ---------------------------------------------------------------
\* C18: while the root key is in the primary index, remove(rootKey) returns Ok,
\* leaves the structure under the root as it was, so that the traversals yield
\* what they yielded before, and leaves the index without the root key and
\* without the key of any descendant of the root.
C18_RemoveRootKeepsStructure ==
  [][(last'.op = "remove" /\ nodes[root].key \in DOMAIN index
        /\ remove(nodes[root].key)) =>
       /\ last'.res = "Ok"
       /\ root' = root
       /\ \A n \in Reachable : n \in DOMAIN nodes' /\ nodes'[n] = nodes[n]
       /\ PreOrder(nodes', root') = PreOrder(nodes, root)
       /\ LevelOrder(nodes', root') = LevelOrder(nodes, root)
       /\ \A n \in Reachable : nodes[n].key \notin DOMAIN index']_vars

\* C19: when remove(k) detaches the node at position i of a parent with n
\* children, the parent is left with n-1 children; if i < n-1 the former last
\* child sits at position i with cached index i, every other remaining child
\* keeps its position and cached index, and the removed node's parent
\* reference is cleared.
C19_RemoveSwapsLastIntoPlace ==
  [][(last'.op = "remove" /\ last'.res = "Ok" /\ last'.at >= 0) =>
       \A k \in DOMAIN index :
         remove(k) =>
           LET node == index[k]
               p == parent(nodes, node)
               i == nodes[node].index
               before == nodes[p].children
               n == Len(before)
               after == nodes'[p].children
           IN  /\ before[i + 1] = node
               /\ Len(after) = n - 1
               /\ i < n - 1 => /\ after[i + 1] = before[n]
                               /\ nodes'[before[n]].index = i
               /\ \A j \in 1..(n - 1) :
                    j # i + 1 => /\ after[j] = before[j]
                                 /\ nodes'[before[j]].index = nodes[before[j]].index
               /\ abandon(nodes, p, node)[node].parent = None
               /\ node \notin Subtree(nodes', root')]_vars

\* the last remove took the first of three siblings out: the former last one
\* is first now
C19_Witness ==
  /\ last.op = "remove" /\ last.res = "Ok"
  /\ last.at = 0 /\ last.sibs = 3
  /\ \E p \in Reachable :
       /\ Len(nodes[p].children) = 2
       /\ nodes[p].children[1] > nodes[p].children[2]

\* C20: when remove(k) returns Ok, every key the primary index mapped to a node
\* outside the subtree of the node found for k is still found afterwards, and
\* mapped to the same node.
C20_RemoveUnindexesSubtreeOnly ==
  [][(last'.op = "remove" /\ last'.res = "Ok") =>
       \A k \in DOMAIN index :
         remove(k) =>
           \A other \in DOMAIN index :
             index[other] \notin Subtree(nodes, index[k]) =>
               find(index', other) = index[other]]_vars

\* ---- the primary index ----------------------------------------------------
\* C21: after any inserts and removes, duplicate keys and root removal
\* included, every entry of the primary index maps its key to a node that
\* carries that key and is reachable from the root.
C21_IndexEntriesReachable ==
  \A k \in DOMAIN index :
    /\ index[k] \in Reachable
    /\ nodes[index[k]].key = k

\* a remove has purged a key that two nodes carried: one of them is still
\* attached and not indexed, and the index has other entries left
C21_Witness ==
  /\ last.op = "remove" /\ last.res = "Ok"
  /\ index # <<>>
  /\ \E n \in Reachable : nodes[n].key \notin DOMAIN index

\* C22: once the primary index is empty it stays empty: every later insert
\* returns the parent-not-found error and every later remove the key-not-found
\* error, whatever the arguments, and the nodes stay as they are.
C22_EmptyIndexStaysEmpty ==
  [][index = <<>> =>
       /\ index' = <<>>
       /\ nodes' = nodes /\ root' = root
       /\ \A p \in Keys, k \in Keys, v \in Values :
            insert(p, k, v) => last'.res = "Parent key not found"
       /\ \A k \in Keys :
            remove(k) => last'.res = "Key not found"
       /\ \A k \in Keys : find(index', k) = None]_vars

\* the index has been emptied under a tree of several nodes, and an insert
\* tried since has been refused
C22_Witness ==
  /\ index = <<>>
  /\ Cardinality(Reachable) >= 2
  /\ last.op = "insert" /\ last.res = "Parent key not found"

\* ---- termination of the iterators -----------------------------------------
\* out lists nodes reachable from the root, none twice; nodes are pending as
\* long as fewer than all have been yielded and none is pending once all
\* have; next() has returned nothing only after all were yielded.
YieldsEachOnce(out, pending, ended) ==
  /\ \A i, j \in 1..Len(out) : out[i] = out[j] => i = j
  /\ Range(out) \subseteq Reachable
  /\ (pending = <<>>) <=> (Len(out) = Cardinality(Reachable))
  /\ ended => pending = <<>>

\* C23: on a tree that is not mutated during the iteration, each of the three
\* iterators yields every node reachable from the root once, returns nothing
\* on the call after the last node (so an iteration that is not dropped comes
\* to its end), and keeps returning nothing on every later call.
C23_IteratorsTerminate ==
  /\ [](/\ dfs.alive => YieldsEachOnce(dfs.out, dfs.stack, dfs.ended)
        /\ bfs.alive => YieldsEachOnce(bfs.out, bfs.queue, bfs.ended)
        /\ sp.alive => YieldsEachOnce(sp.out, sp.queue, sp.ended))
  /\ [][/\ (dfs.ended /\ DepthFirstIterator_next) => dfs' = dfs
        /\ (bfs.ended /\ BreadthFirstIterator_next) => bfs' = bfs
        /\ (sp.ended /\ ShortestPathIterator_next) => sp' = sp]_vars
  /\ (dfs.alive ~> (dfs.ended \/ ~dfs.alive))
  /\ (bfs.alive ~> (bfs.ended \/ ~bfs.alive))
  /\ (sp.alive ~> (sp.ended \/ ~sp.alive))

\* a depth-first iteration over a tree of three nodes or more, left by a
\* remove, has come to its end
C23_Witness ==
  /\ dfs.alive /\ dfs.ended
  /\ Len(dfs.out) >= 3
  /\ last.op = "remove" /\ last.res = "Ok"

====
